---- MODULE Spec2Model ----
(***************************************************************************)
(* js-gcp-logger: request-context propagation (context.ts), the Hono       *)
(* middleware that seeds it (middleware/hono/index.ts) and the handlers    *)
(* the repository's tests drive through it.                                *)
(*                                                                         *)
(* JavaScript values are modelled as follows.  A string is a sequence of   *)
(* one-character strings.  A value that may be undefined or null is an     *)
(* option: <<>> when nullish, <<v>> when it holds v.  Objects with         *)
(* identity (RequestStore, logger) live on heaps and are named by          *)
(* references.                                                             *)
(***************************************************************************)
EXTENDS Integers, Sequences, FiniteSets, TLC

\* ------------------------------------------------------------ bounds
\* Number of requests the application serves.
NReq == 2
\* Largest number of awaited timers in one sequential handler.
MaxSusp == 2

\* ------------------------------------------------------------ options
Nullish == <<>>
Some(v) == <<v>>
IsNullish(o) == o = <<>>
\* a ?? b
Coalesce(o, d) == IF o = <<>> THEN d ELSE o[1]

\* ------------------------------------------------------------ characters
Digits == {"0", "1", "2", "3", "4", "5", "6", "7", "8", "9"}
HexChars == Digits \cup {"a", "b", "c", "d", "e", "f"} \cup {"A", "B", "C", "D", "E", "F"}
HexDigitSeq == <<"0", "1", "2", "3", "4", "5", "6", "7", "8", "9", "a", "b", "c", "d", "e", "f">>
UpperSeq == <<"A", "B", "C", "D", "E", "F", "G", "H", "I", "J", "K", "L", "M", "N", "O", "P", "Q", "R", "S", "T", "U", "V", "W", "X", "Y", "Z">>
LowerSeq == <<"a", "b", "c", "d", "e", "f", "g", "h", "i", "j", "k", "l", "m", "n", "o", "p", "q", "r", "s", "t", "u", "v", "w", "x", "y", "z">>

\* Variant: the text is left in the case it came in.
keepCase(s) == s

\* String.prototype.toLowerCase on one character, then on a string.
LowerChar(c) ==
  IF \E i \in DOMAIN UpperSeq : UpperSeq[i] = c
  THEN LowerSeq[CHOOSE i \in DOMAIN UpperSeq : UpperSeq[i] = c]
  ELSE c
toLowerCase(s) == [i \in DOMAIN s |-> LowerChar(s[i])]

Rep(c, n) == [i \in 1..n |-> c]

\* ------------------------------------------------------------ context.ts
\* The {32} of both regular expressions of parseCloudTraceHeader.
TraceIdLen == 32

\* Variant: only lower-case hex digits are accepted.
looseMatchLowerOnly(header) ==
  /\ Len(header) >= TraceIdLen
  /\ \A i \in 1..TraceIdLen : header[i] \in Digits \cup {"a", "b", "c", "d", "e", "f"}

\* Variant: a 33rd hex character makes the match fail.
looseMatchExactly32(header) ==
  /\ Len(header) >= TraceIdLen
  /\ \A i \in 1..TraceIdLen : header[i] \in HexChars
  /\ Len(header) > TraceIdLen => header[TraceIdLen + 1] \notin HexChars

\* /^([a-fA-F0-9]{32})/ : the input starts with 32 hex characters.
looseMatch(header) ==
  /\ Len(header) >= TraceIdLen
  /\ \A i \in 1..TraceIdLen : header[i] \in HexChars

\* Length of the longest prefix of s made of decimal digits (\d+ is greedy).
DigitRun(s) ==
  IF \A i \in DOMAIN s : s[i] \in Digits
  THEN Len(s)
  ELSE (CHOOSE i \in DOMAIN s :
          /\ s[i] \notin Digits
          /\ \A j \in 1..(i - 1) : s[j] \in Digits) - 1

\* /^([a-fA-F0-9]{32})\/(\d+)(?:;o=([01]))?$/ : the groups of the match, or
\* Nullish when the header does not match.  Group 3 is an option.
strictMatch(header) ==
  IF ~looseMatch(header) \/ Len(header) < TraceIdLen + 2 \/ header[TraceIdLen + 1] # "/"
  THEN Nullish
  ELSE LET rest == SubSeq(header, TraceIdLen + 2, Len(header))
           k    == DigitRun(rest)
           tail == SubSeq(rest, k + 1, Len(rest))
       IN  IF k = 0 THEN Nullish
           ELSE IF tail = <<>>
           THEN Some([g1 |-> SubSeq(header, 1, TraceIdLen), g2 |-> SubSeq(rest, 1, k), g3 |-> Nullish])
           ELSE IF /\ Len(tail) = 4
                   /\ SubSeq(tail, 1, 3) = <<";", "o", "=">>
                   /\ tail[4] \in {"0", "1"}
           THEN Some([g1 |-> SubSeq(header, 1, TraceIdLen), g2 |-> SubSeq(rest, 1, k), g3 |-> Some(tail[4])])
           ELSE Nullish

\* Variant: no lenient fallback, a header off the grammar gives null.
parseCloudTraceHeaderStrictOnly(header) ==
  IF IsNullish(header) \/ header[1] = <<>>
  THEN Nullish
  ELSE LET m == strictMatch(header[1])
       IN  IF IsNullish(m)
           THEN Nullish
           ELSE Some([traceId |-> toLowerCase(m[1].g1),
                      spanId |-> m[1].g2,
                      traceSampled |-> (m[1].g3 = Some("1"))])

\* parseCloudTraceHeader(header): header is an option of a string; the result
\* is an option of {traceId, spanId, traceSampled}.
parseCloudTraceHeader(header) ==
  IF IsNullish(header) \/ header[1] = <<>>
  THEN Nullish
  ELSE LET h == header[1]
           m == strictMatch(h)
       IN  IF IsNullish(m)
           THEN IF looseMatch(h)
                THEN Some([traceId |-> toLowerCase(SubSeq(h, 1, TraceIdLen)),
                           spanId |-> <<"0">>,
                           traceSampled |-> FALSE])
                ELSE Nullish
           ELSE Some([traceId |-> toLowerCase(m[1].g1),
                      spanId |-> m[1].g2,
                      traceSampled |-> (m[1].g3 = Some("1"))])

\* formatTraceField: `projects/${projectId}/traces/${traceId}`
formatTraceField(projectId, traceId) ==
  <<"p", "r", "o", "j", "e", "c", "t", "s", "/">> \o projectId \o <<"/", "t", "r", "a", "c", "e", "s", "/">> \o traceId

\* crypto.randomUUID(): the strings one call can return, that is every UUID
\* v4 text (8-4-4-4-12 lower-case hex digits, version digit 4, variant digit
\* 8, 9, a or b).  A call returns any one of them that no earlier call has
\* returned: the 122 other bits come from the random source, and a UUID
\* does not come back (Request keeps the values already returned out).
UuidLen == 36
UuidChars == {HexDigitSeq[i] : i \in DOMAIN HexDigitSeq} \cup {"-"}
randomUUID ==
  {u \in [1..UuidLen -> UuidChars] :
     \A i \in 1..UuidLen :
       IF i \in {9, 14, 19, 24} THEN u[i] = "-"
       ELSE IF i = 15 THEN u[i] = "4"
       ELSE IF i = 20 THEN u[i] \in {"8", "9", "a", "b"}
       ELSE u[i] # "-"}

\* return crypto.randomUUID(), where the call returned uuid
generateRequestId(uuid) == uuid

NotHyphen(c) == c # "-"
\* Variant: the id is made once, when the module is loaded, and every call
\* returns it.
generateTraceIdOnce(uuid) ==
  <<"0", "f", "1", "e", "2", "d", "3", "c", "4", "b", "5", "a", "6", "9", "7", "8", "8", "7", "9", "6", "a", "5", "b", "4", "c", "3", "d", "2", "e", "1", "f", "0">>

\* return crypto.randomUUID().replace(/-/g, ''), where the call returned uuid
generateTraceId(uuid) == SelectSeq(uuid, NotHyphen)

\* ------------------------------------------------------------ JS results
Undefined == [type |-> "undefined", id |-> 0]
PromiseOf(r) == [type |-> "promise", id |-> r]
Value(v) == [type |-> "value", id |-> v]
Throw(e) == [type |-> "throw", id |-> e]

Pending == [state |-> "pending", id |-> 0]
Fulfilled == [state |-> "fulfilled", id |-> 0]
Rejected(e) == [state |-> "rejected", id |-> e]

\* ------------------------------------------------------------ AsyncLocalStorage
\* A store reference names one RequestStore object.  `cur` below is the store
\* held by the executing async resource: an option of a reference.

\* asyncLocalStorage.getStore()
getStore(cur) == cur

\* getRequestLogger(): asyncLocalStorage.getStore()?.logger
getRequestLogger(heap, cur) ==
  IF IsNullish(getStore(cur)) THEN Nullish ELSE Some(heap[getStore(cur)[1]][1].logger)

\* getTraceContext(): asyncLocalStorage.getStore()?.trace
getTraceContext(heap, cur) ==
  IF IsNullish(getStore(cur)) THEN Nullish ELSE Some(heap[getStore(cur)[1]][1].trace)

\* Variant: run calls fn without binding the store.
alsRunEnterNoBind(cur, ref) == cur

\* asyncLocalStorage.run(store, fn): the store current while fn runs.
alsRunEnter(cur, ref) == Some(ref)

\* Variant: the store stays bound after the call (enterWith instead of run).
alsRunExitKeep(cur, ref) == Some(ref)

\* asyncLocalStorage.run(store, fn): the store current once run has returned
\* or thrown (the previous one is restored).
alsRunExit(cur, ref) == cur

\* Variant: the call drops fn's result (no return statement).
runWithRequestContextNoReturn(fnRet) == Undefined

\* runWithRequestContext(store, fn): what the call gives its caller, fnRet
\* being what fn returned or threw.
runWithRequestContext(fnRet) == fnRet

\* Variant: callbacks run with no store (the context is lost at a suspension).
PropagateLost(cur) == Nullish

\* An async resource (promise continuation, timer) created while `cur` is
\* current runs its callback with `cur` current.
Propagate(cur) == cur

\* ------------------------------------------------------------ logger
BaseLogger == "base"
EmptyContext == [k \in {} |-> TRUE]

\* Object.assign(contextData, ctx)
Assign(ctx, fields) ==
  [k \in DOMAIN ctx \cup DOMAIN fields |-> IF k \in DOMAIN fields THEN fields[k] ELSE ctx[k]]

\* logger.withContext(ctx): merges ctx into the logger's own context data and
\* returns the logger itself.
withContext(lheap, l, fields) ==
  [heap |-> [lheap EXCEPT ![l] = Assign(@, fields)], ret |-> l]

\* ------------------------------------------------------------ index.ts
Production == <<"p", "r", "o", "d", "u", "c", "t", "i", "o", "n">>
Development == <<"d", "e", "v", "e", "l", "o", "p", "m", "e", "n", "t">>

\* if (x) on a string that may be undefined: set and not empty.
Truthy(o) == o # <<>> /\ o[1] # <<>>

\* Variant: the Cloud Run variables are looked at before NODE_ENV.
detectEnvironmentCloudRunFirst(env) ==
  IF Truthy(env.K_SERVICE) \/ Truthy(env.K_REVISION) \/ Truthy(env.K_CONFIGURATION)
  THEN Production
  ELSE IF Truthy(env.NODE_ENV) THEN env.NODE_ENV[1]
  ELSE Development

\* detectEnvironment(): env is process.env.
detectEnvironment(env) ==
  IF Truthy(env.NODE_ENV) THEN env.NODE_ENV[1]
  ELSE IF Truthy(env.K_SERVICE) \/ Truthy(env.K_REVISION) \/ Truthy(env.K_CONFIGURATION)
  THEN Production
  ELSE Development

\* options?.environment, options being undefined or an object.
OptionsEnvironment(options) == IF IsNullish(options) THEN Nullish ELSE options[1].environment

\* createLogger(options): the environment it settled on and the transports
\* of the LogLayer instance it returns.
createLogger(options, env) ==
  LET environment == Coalesce(OptionsEnvironment(options), detectEnvironment(env))
  IN  [environment |-> environment,
       transport |-> IF environment = Production
                     THEN <<"PinoTransport">>
                     ELSE <<"SimplePrettyTerminal">>]

\* ------------------------------------------------------------ middleware
UnknownProject == <<"u", "n", "k", "n", "o", "w", "n", "-", "p", "r", "o", "j", "e", "c", "t">>
TestProject == <<"t", "e", "s", "t", "-", "p", "r", "o", "j", "e", "c", "t">>
InnerTrace == <<"i", "n", "n", "e", "r", "-", "t", "r", "a", "c", "e">>

\* Variant: the environment is consulted before options.projectId.
ResolveProjectIdEnvFirst(cfg) ==
  Coalesce(cfg.GOOGLE_CLOUD_PROJECT,
    Coalesce(cfg.GCLOUD_PROJECT,
      Coalesce(cfg.projectId, UnknownProject)))

\* options.projectId ?? process.env.GOOGLE_CLOUD_PROJECT ??
\* process.env.GCLOUD_PROJECT ?? 'unknown-project'
ResolveProjectId(cfg) ==
  Coalesce(cfg.projectId,
    Coalesce(cfg.GOOGLE_CLOUD_PROJECT,
      Coalesce(cfg.GCLOUD_PROJECT, UnknownProject)))

\* Variant: the trace id is generated whatever the header holds.
BuildTraceAlwaysGenerate(parsedTrace, existingRequestId, us) ==
  [traceId |-> generateTraceId(us[1]),
   spanId |-> IF IsNullish(parsedTrace) THEN <<"0">> ELSE parsedTrace[1].spanId,
   requestId |-> Coalesce(existingRequestId, generateRequestId(us[2])),
   traceSampled |-> IF IsNullish(parsedTrace) THEN FALSE ELSE parsedTrace[1].traceSampled]

\* Variant: the request id is generated whatever X-Request-ID holds.
BuildTraceFreshRequestId(parsedTrace, existingRequestId, us) ==
  LET n2 == IF IsNullish(parsedTrace) THEN 2 ELSE 1
  IN  [traceId |-> IF IsNullish(parsedTrace) THEN generateTraceId(us[1]) ELSE parsedTrace[1].traceId,
       spanId |-> IF IsNullish(parsedTrace) THEN <<"0">> ELSE parsedTrace[1].spanId,
       requestId |-> generateRequestId(us[n2]),
       traceSampled |-> IF IsNullish(parsedTrace) THEN FALSE ELSE parsedTrace[1].traceSampled]

\* Variant: || instead of ??, an empty X-Request-ID is replaced too.
BuildTraceEmptyGenerates(parsedTrace, existingRequestId, us) ==
  LET n2 == IF IsNullish(parsedTrace) THEN 2 ELSE 1
  IN  [traceId |-> IF IsNullish(parsedTrace) THEN generateTraceId(us[1]) ELSE parsedTrace[1].traceId,
       spanId |-> IF IsNullish(parsedTrace) THEN <<"0">> ELSE parsedTrace[1].spanId,
       requestId |-> IF IsNullish(existingRequestId) \/ existingRequestId[1] = <<>>
                     THEN generateRequestId(us[n2])
                     ELSE existingRequestId[1],
       traceSampled |-> IF IsNullish(parsedTrace) THEN FALSE ELSE parsedTrace[1].traceSampled]

\* const trace: TraceContext = {...}; us[1], us[2] are what the first and the
\* second call of crypto.randomUUID() made here return.  generateTraceId() is
\* called only without a parsed trace and generateRequestId() only without an
\* X-Request-ID, the trace id first.
BuildTrace(parsedTrace, existingRequestId, us) ==
  LET n2 == IF IsNullish(parsedTrace) THEN 2 ELSE 1
  IN  [traceId |-> IF IsNullish(parsedTrace) THEN generateTraceId(us[1]) ELSE parsedTrace[1].traceId,
       spanId |-> IF IsNullish(parsedTrace) THEN <<"0">> ELSE parsedTrace[1].spanId,
       requestId |-> Coalesce(existingRequestId, generateRequestId(us[n2])),
       traceSampled |-> IF IsNullish(parsedTrace) THEN FALSE ELSE parsedTrace[1].traceSampled]

\* Number of crypto.randomUUID() calls BuildTrace makes.
Draws(parsedTrace, existingRequestId) ==
  (IF IsNullish(parsedTrace) THEN 1 ELSE 0) + (IF IsNullish(existingRequestId) THEN 1 ELSE 0)

\* Variant: the trace field holds the bare trace id.
ContextFieldsBareTraceId(projectId, trace) ==
  ("logging.googleapis.com/trace" :> trace.traceId)
  @@ ("logging.googleapis.com/spanId" :> trace.spanId)
  @@ ("logging.googleapis.com/trace_sampled" :> trace.traceSampled)
  @@ ("requestId" :> trace.requestId)

\* The argument of logger.withContext.
ContextFields(projectId, trace) ==
  ("logging.googleapis.com/trace" :> formatTraceField(projectId, trace.traceId))
  @@ ("logging.googleapis.com/spanId" :> trace.spanId)
  @@ ("logging.googleapis.com/trace_sampled" :> trace.traceSampled)
  @@ ("requestId" :> trace.requestId)

\* Variant: the two attributes are written under each other's key.
SetVarsSwapped(bag, trace) ==
  ("requestId" :> trace.traceId) @@ ("traceId" :> trace.requestId) @@ bag

\* c.set('requestId', trace.requestId); c.set('traceId', trace.traceId)
SetVars(bag, trace) ==
  ("requestId" :> trace.requestId) @@ ("traceId" :> trace.traceId) @@ bag

\* Variant: the response carries the trace id instead of the request id.
ResponseHeaderTraceId(trace) == trace.traceId

\* c.header('X-Request-ID', trace.requestId): the value of the response header.
ResponseHeader(trace) == trace.requestId

\* Variant: next() is called first and the middleware writes afterwards.
NextSeesBefore(before, after) == before

\* next() is called on line 70, after the middleware has decorated the
\* logger and written the attributes and the response header: of a piece of
\* state that was `before` when the middleware started and is `after` once
\* lines 53-68 have run, the handler finds `after`.
NextSees(before, after) == after

\* Variant: one store object created once and reused by every request.
SharedStoreRef(r) == [req |-> 1, inner |-> FALSE]

\* const store: RequestStore = {...}: a new object per request.
NewStoreRef(r) == [req |-> r, inner |-> FALSE]

\* innerStore of a nested runWithRequestContext call made by a handler.
InnerStoreRef(r) == [req |-> r, inner |-> TRUE]

\* Variant: the await sits inside the scoped function.
AwaitFrameInside(during, after) == during

\* await runWithRequestContext(...): the await is evaluated once the call has
\* returned, so the middleware's continuation is created while the store
\* current after the call (not the one current during it) is current.
AwaitFrame(during, after) == after

\* Variant: the middleware wraps the await in try/catch and swallows the error.
MiddlewareOutcomeSwallow(awaited) == Fulfilled

\* await runWithRequestContext(store, () => next()) inside the async
\* middleware: the middleware's own promise, given the settled awaited one.
MiddlewareOutcome(awaited) ==
  IF awaited.state = "rejected" THEN awaited ELSE Fulfilled

\* ------------------------------------------------------------ inputs
Requests == 1..NReq
StoreRefs == [req : Requests, inner : BOOLEAN]

\* Results of crypto.randomUUID() the requests of the model get: six values
\* with the four variant digits.  Any of them can come back at any call,
\* unless an earlier call has returned it.
Uuid1 == <<"b", "9", "f", "3", "0", "8", "c", "b", "-", "b", "4", "7", "e", "-", "4", "1", "d", "6", "-", "a", "5", "4", "5", "-", "2", "c", "e", "2", "a", "4", "c", "7", "b", "8", "2", "e">>
Uuid2 == <<"3", "3", "2", "7", "f", "a", "1", "b", "-", "a", "5", "e", "5", "-", "4", "2", "5", "2", "-", "b", "1", "a", "4", "-", "8", "d", "7", "1", "d", "0", "5", "c", "2", "b", "d", "7">>
Uuid3 == <<"d", "2", "6", "b", "b", "e", "2", "a", "-", "b", "4", "3", "f", "-", "4", "1", "b", "8", "-", "8", "8", "9", "7", "-", "3", "6", "f", "5", "1", "6", "5", "d", "5", "a", "c", "4">>
Uuid4 == <<"7", "c", "9", "e", "6", "6", "7", "9", "-", "7", "4", "2", "5", "-", "4", "0", "d", "e", "-", "9", "4", "4", "b", "-", "e", "0", "7", "f", "c", "1", "f", "9", "0", "a", "e", "7">>
Uuid5 == <<"f", "4", "7", "a", "c", "1", "0", "b", "-", "5", "8", "c", "c", "-", "4", "3", "7", "2", "-", "a", "5", "6", "7", "-", "0", "e", "0", "2", "b", "2", "c", "3", "d", "4", "7", "9">>
Uuid6 == <<"1", "e", "0", "c", "9", "a", "5", "2", "-", "6", "d", "3", "f", "-", "4", "b", "8", "7", "-", "9", "5", "e", "4", "-", "c", "8", "a", "7", "d", "2", "f", "6", "b", "0", "1", "3">>
UuidDraws == {Uuid1, Uuid2, Uuid3, Uuid4, Uuid5, Uuid6}
\* What the two calls one request can make return, for the requests that run
\* concurrently or back to back.
UuidTapes == {<<Uuid1, Uuid2>>, <<Uuid3, Uuid4>>, <<Uuid5, Uuid6>>}

\* Inbound headers of one request: X-Cloud-Trace-Context and X-Request-ID.
\* The concurrent requests bring neither, so the middleware generates both
\* identifiers of each of them.
Inbound ==
  {[trace |-> Nullish, requestId |-> Nullish]}

\* gcpLoggerMiddleware options and process.env.
Configs ==
  {[projectId |-> Some(TestProject), GOOGLE_CLOUD_PROJECT |-> Nullish, GCLOUD_PROJECT |-> Nullish]}

\* The handlers the tests mount behind the middleware:
\*   seq      reads, then awaits `susp` timers in turn, reading after each,
\*            and returns, or throws when `fail` (at once or after one timer);
\*   fan      reads, awaits Promise.all of two branches that each await a
\*            timer and read, then reads;
\*   nested   reads, calls runWithRequestContext(innerStore, fn) with
\*            innerStore a copy of its request's store under another traceId
\*            and fn a synchronous function that reads and returns (or
\*            throws when `fail`), then reads again;
\*   catch    reads, throws, catches its own error and reads in the catch;
\*   dangling reads, starts a timer it does not await, and returns; the
\*            timer callback reads.
Handlers ==
  [shape : {"seq"}, susp : {0, MaxSusp}, fail : {FALSE}]
  \cup [shape : {"seq"}, susp : {0, 1}, fail : {TRUE}]
  \cup [shape : {"nested"}, susp : {0}, fail : BOOLEAN]
  \cup [shape : {"fan", "catch", "dangling"}, susp : {0}, fail : {FALSE}]

\* Promise.all([...]) of the fan handler has two branches.
FanOut == 2

\* ------------------------------------------------------------ state
VARIABLES
  config,      \* options of gcpLoggerMiddleware and process.env
  uuidCount,   \* crypto.randomUUID() calls made so far
  loggerHeap,  \* logger objects: reference -> context data
  storeHeap,   \* RequestStore objects: reference -> option of {trace, logger}
  rootStore,   \* store held by the execution that dispatches requests
  req,         \* per request: inputs, middleware locals, promises
  tasks,       \* pending async resources, each with the store it holds
  reads,       \* what handlers got from getTraceContext / getRequestLogger
  created      \* what createLogger() built, once it has been called

vars == <<config, uuidCount, loggerHeap, storeHeap, rootStore, req, tasks, reads, created>>

IdleRequest ==
  [phase |-> "idle", traceHeader |-> Nullish, requestIdHeader |-> Nullish,
   kind |-> [shape |-> "seq", susp |-> 0, fail |-> FALSE],
   parsedTrace |-> Nullish, uuids |-> <<>>,
   trace |-> Nullish, store |-> Nullish, logger |-> Nullish,
   vars |-> EmptyContext, resHeader |-> Nullish,
   atNext |-> Nullish, late |-> Nullish,
   fnRet |-> Nullish, runRet |-> Nullish,
   beforeRun |-> Nullish, afterRun |-> Nullish,
   innerFnRet |-> Nullish, innerRunRet |-> Nullish,
   hres |-> Pending, mw |-> Pending, mwStore |-> Nullish]

Init ==
  /\ config \in Configs
  /\ uuidCount = 0
  /\ loggerHeap = [l \in {BaseLogger} |-> EmptyContext]
  /\ storeHeap = [s \in StoreRefs |-> Nullish]
  /\ rootStore = Nullish
  /\ req = [r \in Requests |-> IdleRequest]
  /\ tasks = {}
  /\ reads = {}
  /\ created = Nullish

\* One getTraceContext() plus getRequestLogger() made by request r's handler
\* at point (at, k) while `cur` is current; `settled` tells whether the
\* handler's promise had already settled.
Read(r, at, k, cur, sheap, settled) ==
  [req |-> r, at |-> at, k |-> k,
   ref |-> getStore(cur),
   trace |-> getTraceContext(sheap, cur),
   logger |-> getRequestLogger(sheap, cur),
   settled |-> settled]

\* setTimeout / promise continuation created while `cur` is current.
Task(r, label, k, left, cur) ==
  [req |-> r, label |-> label, k |-> k, left |-> left, store |-> Propagate(cur)]

\* How a finished seq handler settles next()'s promise.
SeqOutcome(r, kind) == IF kind.fail THEN Rejected(r) ELSE Fulfilled

\* The synchronous first segment of request r's handler, run by next()
\* inside runWithRequestContext while `cur` is current.
HandlerStart(r, kind, cur, sheap) ==
  LET first == Read(r, kind.shape, 0, cur, sheap, FALSE)
      none  == [reads |-> {first}, tasks |-> {}, hres |-> Fulfilled, sheap |-> sheap,
                fnRet |-> PromiseOf(r), innerFnRet |-> Nullish, innerRunRet |-> Nullish]
  IN
  CASE kind.shape = "seq" ->
         IF kind.susp > 0
         THEN [none EXCEPT !.tasks = {Task(r, "timer", 1, kind.susp - 1, cur)},
                           !.hres = Pending]
         ELSE [none EXCEPT !.hres = SeqOutcome(r, kind)]
    [] kind.shape = "fan" ->
         [none EXCEPT !.tasks = {Task(r, "branch", b, 0, cur) : b \in 1..FanOut}
                                  \cup {Task(r, "join", FanOut + 1, 0, cur)},
                      !.hres = Pending]
    [] kind.shape = "nested" ->
         LET outerStore == sheap[NewStoreRef(r)][1]
             iref   == InnerStoreRef(r)
             sheap2 == [sheap EXCEPT ![iref] =
                          Some([outerStore EXCEPT !.trace.traceId = InnerTrace])]
             during == alsRunEnter(cur, iref)
             inRead == Read(r, "nested", 1, during, sheap2, FALSE)
             fnRet  == IF kind.fail THEN Throw(r) ELSE Value(r)
             ret    == runWithRequestContext(fnRet)
             after  == alsRunExit(cur, iref)
         IN  [none EXCEPT
                !.sheap = sheap2,
                !.innerFnRet = Some(fnRet),
                !.innerRunRet = Some(ret),
                !.reads = IF ret.type = "throw"
                          THEN {first, inRead}
                          ELSE {first, inRead, Read(r, "nested", 2, after, sheap2, FALSE)},
                !.hres = IF ret.type = "throw" THEN Rejected(ret.id) ELSE Fulfilled]
    [] kind.shape = "catch" ->
         [none EXCEPT !.reads = {first, Read(r, "catch", 1, cur, sheap, FALSE)}]
    [] kind.shape = "dangling" ->
         [none EXCEPT !.tasks = {Task(r, "dangling", 1, 0, cur)}]

\* getTraceContext() and getRequestLogger() called by the code that
\* dispatches requests (outside any handler) while `cur` is current.
Query(sheap, cur) ==
  [trace |-> getTraceContext(sheap, cur), logger |-> getRequestLogger(sheap, cur)]

\* ------------------------------------------------------------ actions
\* The values the calls of crypto.randomUUID() have returned so far.
Drawn == UNION {{req[r].uuids[i] : i \in DOMAIN req[r].uuids} : r \in Requests}

\* app.request(...): the dispatching code queries the context, the middleware
\* runs up to its await, and inside it the handler runs up to its first
\* suspension; the dispatching code queries the context again.  us holds what
\* the calls of crypto.randomUUID() made by this request return: values that
\* no call has returned before.
Request(r, traceHeader, requestIdHeader, kind, us) ==
  /\ req[r].phase = "idle"
  /\ IF r = 1 THEN TRUE ELSE req[r - 1].phase # "idle"
  /\ \A i \in DOMAIN us : us[i] \in randomUUID
  /\ \E parsedTrace \in {parseCloudTraceHeader(traceHeader)} :
     \A i \in 1..Draws(parsedTrace, requestIdHeader) :
       /\ us[i] \notin Drawn
       /\ \A j \in 1..(i - 1) : us[j] # us[i]
  /\ \E parsedTrace \in {parseCloudTraceHeader(traceHeader)} :
     \E trace \in {BuildTrace(parsedTrace, requestIdHeader, us)} :
     \E wc \in {withContext(loggerHeap, BaseLogger,
                            ContextFields(ResolveProjectId(config), trace))} :
     \E ref \in {NewStoreRef(r)} :
     \E during \in {alsRunEnter(rootStore, ref)} :
     \E h \in {HandlerStart(r, kind, during,
                 [storeHeap EXCEPT ![ref] = Some([trace |-> trace, logger |-> wc.ret])])} :
     \E after \in {alsRunExit(rootStore, ref)} :
       /\ uuidCount' = uuidCount + Draws(parsedTrace, requestIdHeader)
       /\ loggerHeap' = wc.heap
       /\ storeHeap' = h.sheap
       /\ rootStore' = after
       /\ req' = [req EXCEPT ![r] =
                    [@ EXCEPT !.phase = "scope",
                              !.traceHeader = traceHeader,
                              !.requestIdHeader = requestIdHeader,
                              !.kind = kind,
                              !.parsedTrace = parsedTrace,
                              !.uuids = SubSeq(us, 1, Draws(parsedTrace, requestIdHeader)),
                              !.trace = Some(trace),
                              !.store = Some(ref),
                              !.logger = Some(wc.ret),
                              !.vars = SetVars(req[r].vars, trace),
                              !.resHeader = Some(ResponseHeader(trace)),
                              !.atNext = Some(
                                [store |-> getStore(during),
                                 vars |-> NextSees(req[r].vars, SetVars(req[r].vars, trace)),
                                 resHeader |-> NextSees(req[r].resHeader, Some(ResponseHeader(trace))),
                                 logger |-> NextSees(loggerHeap, wc.heap)[wc.ret]]),
                              !.fnRet = Some(h.fnRet),
                              !.runRet = Some(runWithRequestContext(h.fnRet)),
                              !.beforeRun = Some(Query(storeHeap, rootStore)),
                              !.afterRun = Some(Query(h.sheap, after)),
                              !.innerFnRet = h.innerFnRet,
                              !.innerRunRet = h.innerRunRet,
                              !.hres = h.hres]]
       /\ tasks' = tasks \cup h.tasks \cup {Task(r, "mw", 0, 0, AwaitFrame(during, after))}
       /\ reads' = reads \cup h.reads
  /\ UNCHANGED <<config, created>>

\* A timer awaited by a seq handler fires: the handler resumes, reads, and
\* either awaits the next timer or finishes.
TimerFires(t) ==
  /\ t \in tasks
  /\ t.label = "timer"
  /\ LET r   == t.req
         cur == t.store
         rd  == Read(r, "seq", t.k, cur, storeHeap, req[r].hres.state # "pending")
     IN  /\ reads' = reads \cup {rd}
         /\ IF t.left > 0
            THEN /\ tasks' = (tasks \ {t}) \cup {Task(r, "timer", t.k + 1, t.left - 1, cur)}
                 /\ req' = req
            ELSE /\ tasks' = tasks \ {t}
                 /\ req' = [req EXCEPT ![r].hres = SeqOutcome(r, req[r].kind)]
  /\ UNCHANGED <<config, uuidCount, loggerHeap, storeHeap, rootStore, created>>

\* The timer of one Promise.all branch fires: the branch reads and finishes.
BranchFires(t) ==
  /\ t \in tasks
  /\ t.label = "branch"
  /\ reads' = reads \cup
       {Read(t.req, "fan", t.k, t.store, storeHeap, req[t.req].hres.state # "pending")}
  /\ tasks' = tasks \ {t}
  /\ UNCHANGED <<config, uuidCount, loggerHeap, storeHeap, rootStore, req, created>>

\* Every branch has finished: the handler resumes after await Promise.all,
\* reads, and returns.
Join(t) ==
  /\ t \in tasks
  /\ t.label = "join"
  /\ ~\E b \in tasks : b.req = t.req /\ b.label = "branch"
  /\ reads' = reads \cup
       {Read(t.req, "fan", t.k, t.store, storeHeap, req[t.req].hres.state # "pending")}
  /\ tasks' = tasks \ {t}
  /\ req' = [req EXCEPT ![t.req].hres = Fulfilled]
  /\ UNCHANGED <<config, uuidCount, loggerHeap, storeHeap, rootStore, created>>

\* A timer the handler did not await fires, possibly after the handler and
\* the middleware have finished; its callback reads.  `late` keeps what it
\* got together with whether the middleware's promise had settled by then.
DanglingFires(t) ==
  /\ t \in tasks
  /\ t.label = "dangling"
  /\ reads' = reads \cup
       {Read(t.req, "dangling", t.k, t.store, storeHeap, req[t.req].hres.state # "pending")}
  /\ tasks' = tasks \ {t}
  /\ req' = [req EXCEPT ![t.req].late =
               Some([mwSettled |-> req[t.req].phase = "done",
                     ref |-> getStore(t.store),
                     trace |-> getTraceContext(storeHeap, t.store),
                     logger |-> getRequestLogger(storeHeap, t.store)])]
  /\ UNCHANGED <<config, uuidCount, loggerHeap, storeHeap, rootStore, created>>

\* The value the middleware awaits has settled (a value that is no promise
\* counts as fulfilled at once): the middleware's own promise settles.
Awaited(r) ==
  LET v == req[r].runRet[1]
  IN  IF v.type = "promise" THEN req[v.id].hres ELSE Fulfilled

MiddlewareResumes(t) ==
  /\ t \in tasks
  /\ t.label = "mw"
  /\ Awaited(t.req).state # "pending"
  /\ req' = [req EXCEPT ![t.req] =
               [@ EXCEPT !.phase = "done",
                         !.mw = MiddlewareOutcome(Awaited(t.req)),
                         !.mwStore = getStore(t.store)]]
  /\ tasks' = tasks \ {t}
  /\ UNCHANGED <<config, uuidCount, loggerHeap, storeHeap, rootStore, reads, created>>

Next ==
  \/ \E r \in Requests, inb \in Inbound, kind \in Handlers, us \in UuidTapes :
       Request(r, inb.trace, inb.requestId, kind, us)
  \/ \E t \in tasks : TimerFires(t)
  \/ \E t \in tasks : BranchFires(t)
  \/ \E t \in tasks : Join(t)
  \/ \E t \in tasks : DanglingFires(t)
  \/ \E t \in tasks : MiddlewareResumes(t)

Spec == Init /\ [][Next]_vars

\* ------------------------------------------------------------ header cases
\* Requests served one after the other (each test awaits app.request before
\* the next one), over the header values and configurations of the tests.
TraceT1 == <<"1", "0", "5", "4", "4", "5", "a", "a", "7", "8", "4", "3", "b", "c", "8", "b", "f", "2", "0", "6", "b", "1", "2", "0", "0", "0", "1", "0", "0", "0", "0", "0">>
TraceTU == <<"A", "B", "C", "D", "E", "F", "1", "2", "3", "4", "5", "6", "7", "8", "9", "0", "1", "2", "3", "4", "5", "6", "7", "8", "9", "0", "A", "B", "C", "D", "E", "F">>
ExistingRequestId == <<"e", "x", "i", "s", "t", "i", "n", "g", "-", "r", "e", "q", "u", "e", "s", "t", "-", "i", "d", "-", "1", "2", "3">>
OptionsProjectId == <<"o", "p", "t", "i", "o", "n", "s", "-", "p", "r", "o", "j", "e", "c", "t", "-", "i", "d">>
EnvProjectId == <<"e", "n", "v", "-", "p", "r", "o", "j", "e", "c", "t", "-", "i", "d">>
GcloudProject == <<"g", "c", "l", "o", "u", "d", "-", "p", "r", "o", "j", "e", "c", "t">>

\* X-Cloud-Trace-Context values: absent, empty, matching the grammar (lower
\* and upper case, with and without the ;o= segment), with a 32-hex prefix
\* but off the grammar, and with no 32-hex prefix.
MwTraceHeaders ==
  {Nullish,
   Some(<<>>),
   Some(TraceT1 \o <<"/", "1", ";", "o", "=", "1">>),
   Some(TraceTU \o <<"/", "1", "2", "3", "4", "5", "6", ";", "o", "=", "0">>),
   Some(TraceT1 \o <<"/", "1">>),
   Some(TraceT1),
   Some(TraceT1 \o <<"/", "a", "b", "c">>),
   Some(TraceT1 \o <<"f">>),
   Some(<<"i", "n", "v", "a", "l", "i", "d", "-", "h", "e", "a", "d", "e", "r">>)}

\* Inbound headers of one request.
MwInbound ==
  [trace : MwTraceHeaders, requestId : {Nullish}]
  \cup [trace : {Nullish, Some(TraceT1 \o <<"/", "1", ";", "o", "=", "1">>)},
        requestId : {Some(ExistingRequestId), Some(<<>>)}]

\* options.projectId and the two environment variables, set or not.
MwConfigs ==
  {[projectId |-> Some(OptionsProjectId), GOOGLE_CLOUD_PROJECT |-> Some(EnvProjectId), GCLOUD_PROJECT |-> Nullish],
   [projectId |-> Some(TestProject), GOOGLE_CLOUD_PROJECT |-> Nullish, GCLOUD_PROJECT |-> Nullish],
   [projectId |-> Nullish, GOOGLE_CLOUD_PROJECT |-> Some(EnvProjectId), GCLOUD_PROJECT |-> Some(GcloudProject)],
   [projectId |-> Nullish, GOOGLE_CLOUD_PROJECT |-> Some(<<>>), GCLOUD_PROJECT |-> Some(GcloudProject)],
   [projectId |-> Nullish, GOOGLE_CLOUD_PROJECT |-> Nullish, GCLOUD_PROJECT |-> Some(GcloudProject)],
   [projectId |-> Nullish, GOOGLE_CLOUD_PROJECT |-> Nullish, GCLOUD_PROJECT |-> Nullish]}

\* The handler of these tests reads the context and returns.
MwHandler == [shape |-> "seq", susp |-> 0, fail |-> FALSE]

MwInit ==
  /\ config \in MwConfigs
  /\ uuidCount = 0
  /\ loggerHeap = [l \in {BaseLogger} |-> EmptyContext]
  /\ storeHeap = [s \in StoreRefs |-> Nullish]
  /\ rootStore = Nullish
  /\ req = [r \in Requests |-> IdleRequest]
  /\ tasks = {}
  /\ reads = {}
  /\ created = Nullish

\* await app.request(...): the request is sent once the previous one has
\* been answered.
MwRequest(r, traceHeader, requestIdHeader, us) ==
  /\ \A r2 \in 1..(r - 1) : req[r2].phase = "done"
  /\ Request(r, traceHeader, requestIdHeader, MwHandler, us)

MwNext ==
  \/ \E r \in Requests, inb \in MwInbound, us \in UuidTapes :
       MwRequest(r, inb.trace, inb.requestId, us)
  \/ \E t \in tasks : MiddlewareResumes(t)

MwSpec == MwInit /\ [][MwNext]_vars

\* ------------------------------------------------------------ parser cases
\* parseCloudTraceHeader applied to headers put together from a beginning, a
\* span part and an option part: one request carrying the header is served.
TraceMixed == <<"a", "B", "c", "D", "e", "F", "0", "1", "2", "3", "4", "5", "6", "7", "8", "9", "A", "b", "C", "d", "E", "f", "0", "1", "2", "3", "4", "5", "6", "7", "8", "9">>
ParsePrefixes ==
  {TraceT1, TraceTU, TraceMixed,
   SubSeq(TraceT1, 1, TraceIdLen - 1),
   TraceT1 \o <<"f">>,
   <<"n", "o", "t", "-", "h", "e", "x", "-", "c", "h", "a", "r", "s", "-", "h", "e", "r", "e", "-", "3", "2", "-", "c", "h", "a", "r", "a", "c", "t", "e", "r", "s">>}
ParseSpans ==
  {<<>>, <<"/">>, <<"/", "0">>, <<"/", "1">>, <<"/", "1", "2", "3", "4", "5", "6">>, <<"/", "1", "8", "4", "4", "6", "7", "4", "4", "0", "7", "3", "7", "0", "9", "5", "5", "1", "6", "1", "5">>, <<"/", "a", "b", "c">>, <<"/", "1", "a">>, <<"/", "-", "1">>}
ParseOptions ==
  {<<>>, <<";", "o", "=", "0">>, <<";", "o", "=", "1">>, <<";", "o", "=", "2">>, <<";", "o", "=">>, <<";", "o", "=", "1", "x">>, <<";", "O", "=", "1">>}
ParseHeaders ==
  {Nullish, Some(<<"i", "n", "v", "a", "l", "i", "d", "-", "f", "o", "r", "m", "a", "t">>), Some(<<"t", "o", "o", "-", "s", "h", "o", "r", "t", "/", "1">>)}
  \cup {Some(t \o s \o o) : t \in ParsePrefixes \cup {<<>>}, s \in ParseSpans, o \in ParseOptions}

ParseRequest(traceHeader, us) == Request(1, traceHeader, Nullish, MwHandler, us)

ParseNext ==
  \/ \E h \in ParseHeaders, us \in [1..2 -> UuidDraws] : ParseRequest(h, us)
  \/ \E t \in tasks : MiddlewareResumes(t)

ParseSpec == Init /\ [][ParseNext]_vars

\* ------------------------------------------------------------ logger creation
\* createLogger called once under each combination of options.environment,
\* NODE_ENV and the Cloud Run variables.
Staging == <<"s", "t", "a", "g", "i", "n", "g">>
TestEnv == <<"t", "e", "s", "t">>
MyService == <<"m", "y", "-", "s", "e", "r", "v", "i", "c", "e">>
MyRevision == <<"m", "y", "-", "r", "e", "v", "i", "s", "i", "o", "n">>
MyConfiguration == <<"m", "y", "-", "c", "o", "n", "f", "i", "g", "u", "r", "a", "t", "i", "o", "n">>

LoggerOptions ==
  {Nullish, Some([environment |-> Nullish])}
  \cup {Some([environment |-> Some(e)]) : e \in {Production, Development, Staging, <<>>}}

LoggerConfigs ==
  [options : LoggerOptions,
   NODE_ENV : {Nullish, Some(<<>>), Some(Production), Some(Development), Some(TestEnv)},
   K_SERVICE : {Nullish, Some(<<>>), Some(MyService)},
   K_REVISION : {Nullish, Some(MyRevision)},
   K_CONFIGURATION : {Nullish, Some(MyConfiguration)}]

LoggerInit ==
  /\ config \in LoggerConfigs
  /\ uuidCount = 0
  /\ loggerHeap = [l \in {} |-> EmptyContext]
  /\ storeHeap = [s \in StoreRefs |-> Nullish]
  /\ rootStore = Nullish
  /\ req = [r \in Requests |-> IdleRequest]
  /\ tasks = {}
  /\ reads = {}
  /\ created = Nullish

\* const logger = createLogger(options)
CreateLogger ==
  /\ created = Nullish
  /\ created' = Some(createLogger(config.options, config))
  /\ loggerHeap' = [l \in {BaseLogger} |-> EmptyContext]
  /\ UNCHANGED <<config, uuidCount, storeHeap, rootStore, req, tasks, reads>>

LoggerNext == CreateLogger

LoggerSpec == LoggerInit /\ [][LoggerNext]_vars

\* ------------------------------------------------------------ properties
Arrived(r) == req[r].phase # "idle"
InFlight(r) == req[r].phase = "scope"
\* A read made by the handler itself (not inside its nested inner call).
OuterRead(rd) == ~(rd.at = "nested" /\ rd.k = 1)
NoContext == [trace |-> Nullish, logger |-> Nullish]

\* C1: a getTraceContext()/getRequestLogger() call made in the control flow
\* of one request's scope never returns from a store bound by another
\* request's scope, under every interleaving of suspensions and resumptions.
C1_ScopesIsolated ==
  \A rd \in reads : \A r2 \in Requests :
    (r2 # rd.req /\ ~IsNullish(rd.ref)) =>
      /\ rd.ref # req[r2].store
      /\ rd.ref # Some(InnerStoreRef(r2))

\* Two requests are in flight at once, each suspended again after having
\* read the context following an earlier suspension.
C1_Witness ==
  /\ \A r \in {1, 2} :
       /\ InFlight(r)
       /\ \E rd \in reads : rd.req = r /\ rd.at = "seq" /\ rd.k = 1 /\ ~IsNullish(rd.ref)
       /\ \E t \in tasks : t.req = r /\ t.label = "timer"

\* C2: within one scope every call made by the scoped function, before and
\* after each suspension, returns the trace and the logger of the store that
\* was passed to runWithRequestContext.
C2_SameStoreAcrossSuspensions ==
  \A rd \in reads :
    OuterRead(rd) =>
      /\ rd.ref = req[rd.req].store
      /\ rd.trace = req[rd.req].trace
      /\ rd.logger = req[rd.req].logger

\* A handler has read after its MaxSusp-th suspension while another request
\* arrived after it and is still in flight.
C2_Witness ==
  /\ \E rd \in reads : rd.req = 1 /\ rd.at = "seq" /\ rd.k = MaxSusp
  /\ \E rd \in reads : rd.req = 1 /\ rd.at = "seq" /\ rd.k = 0
  /\ InFlight(2)

\* C3: every Promise.all branch after its own suspension, and the parent
\* after the join, gets the store of the enclosing scope and no other.
C3_FanOutSameStore ==
  \A rd \in reads :
    rd.at = "fan" =>
      /\ rd.ref = req[rd.req].store
      /\ rd.trace = req[rd.req].trace
      /\ rd.logger = req[rd.req].logger
      /\ \A r2 \in Requests : r2 # rd.req => rd.ref # req[r2].store

\* Both branches and the join of one request have read while another
\* request's branches are still pending.
C3_Witness ==
  /\ \A k \in 1..(FanOut + 1) : \E rd \in reads : rd.req = 1 /\ rd.at = "fan" /\ rd.k = k
  /\ \E t \in tasks : t.req = 2 /\ t.label = "branch"

\* C4: inside a nested runWithRequestContext call getTraceContext() returns
\* the inner store's trace, and after the inner call has returned the outer
\* scope gets the outer store's trace again.
C4_InnermostScopeWins ==
  \A rd \in reads :
    rd.at = "nested" =>
      IF rd.k = 1
      THEN /\ rd.ref = Some(InnerStoreRef(rd.req))
           /\ rd.trace = Some(storeHeap[InnerStoreRef(rd.req)][1].trace)
           /\ rd.trace[1].traceId = InnerTrace
      ELSE /\ rd.ref = req[rd.req].store
           /\ rd.trace = req[rd.req].trace
           /\ rd.trace[1].traceId # InnerTrace

\* A handler has read before, inside and after its nested call.
C4_Witness ==
  \E r \in Requests : \A k \in 0..2 : \E rd \in reads : rd.req = r /\ rd.at = "nested" /\ rd.k = k

\* C5: called outside any scope, getRequestLogger() and getTraceContext()
\* return undefined: the code dispatching a request gets no context before
\* the request and none once the middleware call has returned.
C5_UndefinedOutsideScope ==
  \A r \in Requests :
    Arrived(r) =>
      /\ req[r].beforeRun = Some(NoContext)
      /\ req[r].afterRun = Some(NoContext)

\* The second request was dispatched (with its queries) while the first was
\* suspended inside its scope.
C5_Witness ==
  /\ Arrived(2)
  /\ InFlight(1)
  /\ \E t \in tasks : t.req = 1 /\ t.label \in {"timer", "branch", "dangling"}

\* C6 as stated: once the scoped function has returned (its promise has
\* settled), no getTraceContext()/getRequestLogger() call returns the
\* scope's store any more.
C6_StoreGoneAfterReturn ==
  \A rd \in reads : rd.settled => rd.ref # req[rd.req].store

\* C6 amended: once runWithRequestContext has returned or thrown, code
\* outside the scope's own control flow no longer gets the store: not the
\* dispatching code after the call, not the middleware resuming after its
\* await, not a request dispatched later.  A callback created inside the
\* scope still gets it when it runs after the scoped function has returned.
C6_StoreGoneOutsideScope ==
  /\ \A r \in Requests :
       Arrived(r) =>
         /\ req[r].afterRun = Some(NoContext)
         /\ req[r].phase = "done" => req[r].mwStore # req[r].store
         /\ \A r2 \in Requests :
              (r2 > r /\ Arrived(r2)) =>
                /\ req[r2].beforeRun = Some(NoContext)
                /\ \A rd \in reads : rd.req = r2 => rd.ref # req[r].store
  /\ \A rd \in reads : rd.settled => rd.ref = req[rd.req].store

\* One scope has ended by an escaping error and another by a return, the
\* middleware has resumed for both, a later request was dispatched, and a
\* timer left behind by a finished request has fired.
C6_Witness ==
  /\ \E r \in Requests : req[r].phase = "done" /\ req[r].mw.state = "rejected"
  /\ \E rd \in reads : rd.settled /\ req[rd.req].phase = "done"
  /\ \E r, r2 \in Requests :
       req[r].phase = "done" /\ req[r].mw.state = "fulfilled" /\ r2 > r /\ Arrived(r2)

\* C7: runWithRequestContext returns exactly what fn returns (the promise
\* itself when fn is asynchronous) and rethrows what fn throws.
C7_RunReturnsFnResult ==
  \A r \in Requests :
    Arrived(r) =>
      /\ req[r].runRet = req[r].fnRet
      /\ req[r].runRet = Some(PromiseOf(r))
      /\ req[r].innerRunRet = req[r].innerFnRet
      /\ req[r].kind.shape = "nested" =>
           req[r].innerRunRet = Some(IF req[r].kind.fail THEN Throw(r) ELSE Value(r))

\* One nested call returned a value and another threw.
C7_Witness ==
  /\ \E r \in Requests : req[r].innerRunRet = Some(Value(r))
  /\ \E r \in Requests : req[r].innerRunRet = Some(Throw(r))

\* C8: when next() rejects with error e, the promise returned by the
\* middleware rejects with the same e, and it does so after the scope has
\* unwound (the middleware no longer has the store as its context).
C8_ErrorPropagates ==
  \A r \in Requests :
    (req[r].phase = "done" /\ req[r].hres.state = "rejected") =>
      /\ req[r].mw = Rejected(r)
      /\ req[r].mw = req[r].hres
      /\ IsNullish(req[r].mwStore)

\* A handler has thrown after a suspension and the middleware has settled.
C8_Witness ==
  \E r \in Requests :
    /\ req[r].phase = "done"
    /\ req[r].mw.state = "rejected"
    /\ req[r].kind.shape = "seq" /\ req[r].kind.susp = 1

\* C9: a handler that reads the trace, throws, catches its own error and
\* reads again gets the same traceId both times: the one resolved for its
\* request.
C9_TraceInCatch ==
  \A rd \in reads :
    rd.at = "catch" =>
      /\ ~IsNullish(rd.trace)
      /\ rd.trace[1].traceId = req[rd.req].trace[1].traceId
      /\ rd.trace[1].traceId = req[rd.req].vars["traceId"]
      /\ \A rd2 \in reads :
           (rd2.req = rd.req /\ rd2.at = "catch") =>
             /\ ~IsNullish(rd2.trace)
             /\ rd2.trace[1].traceId = rd.trace[1].traceId

\* A handler has read in its try block and in its catch block while an
\* earlier request with another traceId is in flight.
C9_Witness ==
  /\ InFlight(1)
  /\ Arrived(2)
  /\ req[1].trace[1].traceId # req[2].trace[1].traceId
  /\ \A k \in {0, 1} :
       \E rd \in reads : rd.req = 2 /\ rd.at = "catch" /\ rd.k = k
                         /\ rd.trace[1].traceId = req[2].vars["traceId"]

\* The context data a request's logger view reports now.
LoggerView(r) == loggerHeap[req[r].logger[1]]
OwnFields(r) == ContextFields(ResolveProjectId(config), req[r].trace[1])

\* C10: with one base logger shared by all requests, decorating it for one
\* request never changes what another request's logger view reports: the
\* store.logger of every request in flight carries that request's own trace,
\* span, sampled and requestId fields.
C10_LoggerViewsIndependent ==
  \A r \in Requests : InFlight(r) => LoggerView(r) = OwnFields(r)

\* The rest of C10: the middleware leaves the base logger's own fields
\* unchanged.
C10_BaseLoggerUnchanged ==
  loggerHeap[BaseLogger] = EmptyContext

\* ------------------------------------------------------------ header grammar
\* TRACE_ID/SPAN_ID[;o=FLAG] written out: the ways to cut h into 32 hex
\* characters, a slash, one or more decimal digits and an optional ;o=0 or
\* ;o=1 (there is at most one).
OptionSegments == {<<>>, <<";", "o", "=", "0">>, <<";", "o", "=", "1">>}
GrammarSplits(h) ==
  {g \in {[T |-> SubSeq(h, 1, 32), S |-> SubSeq(h, 34, 33 + n), F |-> SubSeq(h, 34 + n, Len(h))] :
            n \in 1..(Len(h) - 33)} :
     /\ \A i \in 1..32 : g.T[i] \in HexChars
     /\ h[33] = "/"
     /\ \A i \in DOMAIN g.S : g.S[i] \in Digits
     /\ g.F \in OptionSegments}
MatchesGrammar(h) == GrammarSplits(h) # {}

\* l is s with its letters A-F put in lower case.
HexLower(c) ==
  CASE c = "A" -> "a" [] c = "B" -> "b" [] c = "C" -> "c"
    [] c = "D" -> "d" [] c = "E" -> "e" [] c = "F" -> "f" [] OTHER -> c
IsLowerOf(l, s) == Len(l) = Len(s) /\ \A i \in DOMAIN s : l[i] = HexLower(s[i])

\* The trace ids and request ids made of the values crypto.randomUUID() has
\* returned so far.
GeneratedTraceIds == {generateTraceId(u) : u \in Drawn}
GeneratedRequestIds == {generateRequestId(u) : u \in Drawn}

\* The reads the handler of request r made.
ReadsOf(r) == {rd \in reads : rd.req = r}

\* C11: when the inbound X-Cloud-Trace-Context matches TRACE_ID/SPAN_ID[;o=FLAG],
\* the trace context the handler gets has traceId = TRACE_ID in lower case,
\* spanId = SPAN_ID and traceSampled = (FLAG is 1); the traceId comes from the
\* header and is not a generated one.
C11_ValidHeaderResolved ==
  \A r \in Requests :
    (Arrived(r) /\ ~IsNullish(req[r].traceHeader)) =>
      \A g \in GrammarSplits(req[r].traceHeader[1]) :
        /\ ReadsOf(r) # {}
        /\ \A rd \in ReadsOf(r) :
             /\ ~IsNullish(rd.trace)
             /\ IsLowerOf(rd.trace[1].traceId, g.T)
             /\ rd.trace[1].spanId = g.S
             /\ rd.trace[1].traceSampled = (g.F = <<";", "o", "=", "1">>)
             /\ rd.trace[1].traceId \notin GeneratedTraceIds
        /\ Len(req[r].uuids) = (IF IsNullish(req[r].requestIdHeader) THEN 1 ELSE 0)

\* One request came with an upper-case trace id and ;o=0, the next with a
\* sampled header, and both handlers have read their context.
C11_Witness ==
  /\ req[1].traceHeader = Some(TraceTU \o <<"/", "1", "2", "3", "4", "5", "6", ";", "o", "=", "0">>)
  /\ req[2].traceHeader = Some(TraceT1 \o <<"/", "1", ";", "o", "=", "1">>)
  /\ ReadsOf(1) # {} /\ ReadsOf(2) # {}
  /\ \E rd \in ReadsOf(2) : rd.trace[1].traceSampled

\* /^[0-9a-f]{32}$/
LowerHexChars == Digits \cup {"a", "b", "c", "d", "e", "f"}
IsLowerHex32(s) == Len(s) = 32 /\ \A i \in 1..32 : s[i] \in LowerHexChars

\* The calls of crypto.randomUUID() request r made: one for the trace id when
\* the request had none to take from its header, then one for the request id
\* when the request brought none.
OwnTraceDraw(r) == req[r].uuids[1]
OwnRequestIdDraw(r) == req[r].uuids[Len(req[r].uuids)]
\* s is u with its hyphens taken out.
IsWithoutHyphens(s, u) ==
  /\ Len(s) = 32 /\ Len(u) = 36
  /\ \A i \in 1..32 :
       s[i] = u[IF i <= 8 THEN i ELSE IF i <= 12 THEN i + 1 ELSE IF i <= 16 THEN i + 2
                ELSE IF i <= 20 THEN i + 3 ELSE i + 4]

\* C12: a request without X-Cloud-Trace-Context resolves a generated traceId
\* of 32 lower-case hex characters (no hyphen), spanId "0" and traceSampled
\* false, and the traceId is generated anew each time (it is the result of a
\* crypto.randomUUID() call made by that very request, hyphens taken out):
\* two such requests made one after the other resolve different traceIds.
C12_GeneratedTraceId ==
  \A r \in Requests :
    (Arrived(r) /\ IsNullish(req[r].traceHeader)) =>
      /\ ReadsOf(r) # {}
      /\ \A rd \in ReadsOf(r) :
           /\ rd.trace = req[r].trace
           /\ IsLowerHex32(rd.trace[1].traceId)
           /\ \A i \in DOMAIN rd.trace[1].traceId : rd.trace[1].traceId[i] # "-"
           /\ rd.trace[1].spanId = <<"0">>
           /\ rd.trace[1].traceSampled = FALSE
      /\ Len(req[r].uuids) = (IF IsNullish(req[r].requestIdHeader) THEN 2 ELSE 1)
      /\ IsWithoutHyphens(req[r].trace[1].traceId, OwnTraceDraw(r))
      /\ \A r2 \in Requests :
           (r2 # r /\ Arrived(r2) /\ IsNullish(req[r2].traceHeader)) =>
             req[r2].trace[1].traceId # req[r].trace[1].traceId

\* Two requests without a trace header were served back to back, the first
\* one also without X-Request-ID (so that it called crypto.randomUUID()
\* twice), and the calls gave the two requests different trace ids.
C12_Witness ==
  /\ req[1].phase = "done" /\ req[2].phase = "done"
  /\ IsNullish(req[1].traceHeader) /\ IsNullish(req[2].traceHeader)
  /\ IsNullish(req[1].requestIdHeader)
  /\ ReadsOf(1) # {} /\ ReadsOf(2) # {}
  /\ uuidCount >= 3
  /\ req[1].trace[1].traceId # req[2].trace[1].traceId

\* The header is present and is not of the form TRACE_ID/SPAN_ID[;o=FLAG].
Malformed(r) == ~IsNullish(req[r].traceHeader) /\ ~MatchesGrammar(req[r].traceHeader[1])
\* h starts with 32 hex characters.
HasHexPrefix(h) == Len(h) >= 32 /\ \A i \in 1..32 : h[i] \in HexChars

\* C13 as stated: a header that does not match the grammar is never an
\* error (the handler runs, the middleware fulfils) and the resolved traceId
\* is a freshly generated one.
C13_MalformedGeneratesFresh ==
  \A r \in Requests :
    (Arrived(r) /\ Malformed(r)) =>
      /\ ReadsOf(r) # {}
      /\ req[r].phase = "done" => req[r].mw = Fulfilled
      /\ req[r].trace[1].traceId \in GeneratedTraceIds

\* C13 amended: a header that does not match the grammar is never an error
\* (the handler runs, the middleware fulfils); the resolved traceId is a
\* freshly generated one when the header does not start with 32 hex
\* characters, and the header's first 32 characters in lower case (with
\* spanId "0" and traceSampled false) when it does.
C13_MalformedNeverFails ==
  \A r \in Requests :
    (Arrived(r) /\ Malformed(r)) =>
      /\ ReadsOf(r) # {}
      /\ \A rd \in ReadsOf(r) : rd.trace = req[r].trace
      /\ req[r].phase = "done" => req[r].mw = Fulfilled
      /\ IsLowerHex32(req[r].trace[1].traceId)
      /\ req[r].trace[1].spanId = <<"0">>
      /\ req[r].trace[1].traceSampled = FALSE
      /\ IF HasHexPrefix(req[r].traceHeader[1])
         THEN /\ IsLowerOf(req[r].trace[1].traceId, SubSeq(req[r].traceHeader[1], 1, 32))
              /\ req[r].trace[1].traceId \notin GeneratedTraceIds
         ELSE req[r].trace[1].traceId \in GeneratedTraceIds

\* One request came with 'invalid-header' and the next with a 32-hex trace
\* id followed by a span that is no number; both were answered.
C13_Witness ==
  /\ req[1].traceHeader = Some(<<"i", "n", "v", "a", "l", "i", "d", "-", "h", "e", "a", "d", "e", "r">>)
  /\ req[2].traceHeader = Some(TraceT1 \o <<"/", "a", "b", "c">>)
  /\ req[1].phase = "done" /\ req[2].phase = "done"
  /\ req[1].mw = Fulfilled /\ req[2].mw = Fulfilled

\* UUID v4 text: 8-4-4-4-12 lower-case hex digits, version digit 4, variant
\* digit 8, 9, a or b.
IsUuidV4(s) ==
  /\ Len(s) = 36
  /\ \A i \in 1..36 :
       IF i \in {9, 14, 19, 24} THEN s[i] = "-"
       ELSE IF i = 15 THEN s[i] = "4"
       ELSE IF i = 20 THEN s[i] \in {"8", "9", "a", "b"}
       ELSE s[i] \in LowerHexChars

\* C14: when the request carries X-Request-ID the resolved requestId is that
\* value verbatim; when it carries none the requestId is a freshly generated
\* UUID v4: the result of a crypto.randomUUID() call made by that request.
C14_RequestIdResolved ==
  \A r \in Requests :
    Arrived(r) =>
      /\ ReadsOf(r) # {}
      /\ \A rd \in ReadsOf(r) :
           IF IsNullish(req[r].requestIdHeader)
           THEN /\ IsUuidV4(rd.trace[1].requestId)
                /\ Len(req[r].uuids) = (IF IsNullish(req[r].parsedTrace) THEN 2 ELSE 1)
                /\ rd.trace[1].requestId = OwnRequestIdDraw(r)
           ELSE rd.trace[1].requestId = req[r].requestIdHeader[1]

\* One request came with X-Request-ID: existing-request-id-123, the next
\* with no X-Request-ID and no trace header; both were answered.
C14_Witness ==
  /\ req[1].requestIdHeader = Some(ExistingRequestId)
  /\ IsNullish(req[2].requestIdHeader) /\ IsNullish(req[2].traceHeader)
  /\ req[1].phase = "done" /\ req[2].phase = "done"
  /\ \E rd \in ReadsOf(1) : rd.trace[1].requestId = ExistingRequestId

\* C15: on every request the response header X-Request-ID is exactly the
\* requestId of the trace context bound for that request, whether the
\* requestId came in with the request or was generated.
C15_ResponseHeaderEchoesRequestId ==
  \A r \in Requests :
    Arrived(r) =>
      /\ ~IsNullish(req[r].resHeader)
      /\ req[r].resHeader[1] = storeHeap[req[r].store[1]][1].trace.requestId
      /\ \A rd \in ReadsOf(r) : req[r].resHeader[1] = rd.trace[1].requestId
      /\ ~IsNullish(req[r].requestIdHeader) => req[r].resHeader = req[r].requestIdHeader
      /\ IsNullish(req[r].requestIdHeader) => req[r].resHeader[1] = OwnRequestIdDraw(r)

\* The first request had its requestId generated, the second supplied one
\* together with a trace header; both responses are out.
C15_Witness ==
  /\ IsNullish(req[1].requestIdHeader)
  /\ req[2].requestIdHeader = Some(ExistingRequestId)
  /\ ~IsNullish(req[2].traceHeader)
  /\ req[1].phase = "done" /\ req[2].phase = "done"
  /\ req[2].resHeader = Some(ExistingRequestId)
  /\ req[1].resHeader # req[2].resHeader

\* The four fields C16 names, for project id pid and trace context t.
GcpFieldNames ==
  {"logging.googleapis.com/trace", "logging.googleapis.com/spanId",
   "logging.googleapis.com/trace_sampled", "requestId"}
GcpFields(pid, t) ==
  [k \in GcpFieldNames |->
     CASE k = "logging.googleapis.com/trace" ->
            <<"p", "r", "o", "j", "e", "c", "t", "s", "/">> \o pid \o <<"/", "t", "r", "a", "c", "e", "s", "/">> \o t.traceId
       [] k = "logging.googleapis.com/spanId" -> t.spanId
       [] k = "logging.googleapis.com/trace_sampled" -> t.traceSampled
       [] k = "requestId" -> t.requestId]

\* Request r is taken up by the middleware in this step.
Taken(r) == req[r].phase = "idle" /\ req'[r].phase # "idle"

\* C16: for every request the middleware calls withContext on the base logger
\* with 'logging.googleapis.com/trace' = "projects/{projectId}/traces/{traceId}",
\* 'logging.googleapis.com/spanId' = spanId,
\* 'logging.googleapis.com/trace_sampled' = traceSampled and requestId =
\* requestId of that request's TraceContext, and the logger put in the store
\* is the one that call returned.
C16_WithContextFields ==
  [][\A r \in Requests :
       Taken(r) =>
         /\ loggerHeap'[BaseLogger] =
              Assign(loggerHeap[BaseLogger], GcpFields(ResolveProjectId(config), req'[r].trace[1]))
         /\ DOMAIN loggerHeap'[BaseLogger] = GcpFieldNames
         /\ storeHeap'[req'[r].store[1]][1].trace = req'[r].trace[1]
         /\ Some(storeHeap'[req'[r].store[1]][1].logger) = req'[r].logger
         /\ req'[r].logger =
              Some(withContext(loggerHeap, BaseLogger,
                               GcpFields(ResolveProjectId(config), req'[r].trace[1])).ret)]_vars

\* With the project id taken from GOOGLE_CLOUD_PROJECT, a request carrying an
\* upper-case trace id has decorated the base logger.
C16_Witness ==
  /\ IsNullish(config.projectId)
  /\ config.GOOGLE_CLOUD_PROJECT = Some(EnvProjectId)
  /\ Arrived(1)
  /\ req[1].traceHeader = Some(TraceTU \o <<"/", "1", "2", "3", "4", "5", "6", ";", "o", "=", "0">>)
  /\ loggerHeap[BaseLogger]["logging.googleapis.com/trace"] =
       <<"p", "r", "o", "j", "e", "c", "t", "s", "/", "e", "n", "v", "-", "p", "r", "o", "j", "e", "c", "t", "-", "i", "d", "/", "t", "r", "a", "c", "e", "s", "/", "a", "b", "c", "d", "e", "f", "1", "2", "3", "4", "5", "6", "7", "8", "9", "0", "1", "2", "3", "4", "5", "6", "7", "8", "9", "0", "a", "b", "c", "d", "e", "f">>
  /\ loggerHeap[BaseLogger]["logging.googleapis.com/spanId"] = <<"1", "2", "3", "4", "5", "6">>
  /\ loggerHeap[BaseLogger]["logging.googleapis.com/trace_sampled"] = FALSE

\* The project id C17 expects: the first of options.projectId,
\* GOOGLE_CLOUD_PROJECT and GCLOUD_PROJECT that is set, else 'unknown-project'.
ExpectedProjectId ==
  IF config.projectId # <<>> THEN config.projectId[1]
  ELSE IF config.GOOGLE_CLOUD_PROJECT # <<>> THEN config.GOOGLE_CLOUD_PROJECT[1]
  ELSE IF config.GCLOUD_PROJECT # <<>> THEN config.GCLOUD_PROJECT[1]
  ELSE <<"u", "n", "k", "n", "o", "w", "n", "-", "p", "r", "o", "j", "e", "c", "t">>

\* The request taken up last.
LastArrived == CHOOSE r \in Requests : Arrived(r) /\ \A r2 \in Requests : Arrived(r2) => r2 <= r

\* C17: the projectId of the trace-correlation field is options.projectId if
\* configured, else GOOGLE_CLOUD_PROJECT, else GCLOUD_PROJECT, else
\* 'unknown-project'; whichever it is, the request reaches the handler and
\* the middleware does not fail.
C17_ProjectIdPrecedence ==
  (\E r \in Requests : Arrived(r)) =>
    /\ loggerHeap[BaseLogger]["logging.googleapis.com/trace"] =
         <<"p", "r", "o", "j", "e", "c", "t", "s", "/">> \o ExpectedProjectId \o <<"/", "t", "r", "a", "c", "e", "s", "/">> \o req[LastArrived].trace[1].traceId
    /\ \A r \in Requests :
         Arrived(r) =>
           /\ ReadsOf(r) # {}
           /\ req[r].phase = "done" => req[r].mw = Fulfilled

\* Nothing names a project: the request was answered and the field reads
\* projects/unknown-project/traces/...
C17_Witness ==
  /\ IsNullish(config.projectId)
  /\ IsNullish(config.GOOGLE_CLOUD_PROJECT)
  /\ IsNullish(config.GCLOUD_PROJECT)
  /\ req[1].phase = "done" /\ req[1].mw = Fulfilled
  /\ ReadsOf(1) # {}
  /\ SubSeq(loggerHeap[BaseLogger]["logging.googleapis.com/trace"], 1, 32) =
       <<"p", "r", "o", "j", "e", "c", "t", "s", "/", "u", "n", "k", "n", "o", "w", "n", "-", "p", "r", "o", "j", "e", "c", "t", "/", "t", "r", "a", "c", "e", "s", "/">>

\* C18: for every request the attribute bag holds 'requestId' and 'traceId',
\* equal to the requestId and traceId of the trace context bound for that
\* request: the handler reads the same identifiers from the bag and from
\* getTraceContext().
C18_AttributesMatchTrace ==
  \A r \in Requests :
    Arrived(r) =>
      /\ {"requestId", "traceId"} \subseteq DOMAIN req[r].vars
      /\ req[r].vars["requestId"] = storeHeap[req[r].store[1]][1].trace.requestId
      /\ req[r].vars["traceId"] = storeHeap[req[r].store[1]][1].trace.traceId
      /\ ReadsOf(r) # {}
      /\ \A rd \in ReadsOf(r) :
           /\ req[r].vars["requestId"] = rd.trace[1].requestId
           /\ req[r].vars["traceId"] = rd.trace[1].traceId

\* A request carrying both headers and one carrying neither have written
\* their attributes.
C18_Witness ==
  /\ req[1].traceHeader = Some(TraceT1 \o <<"/", "1", ";", "o", "=", "1">>)
  /\ req[1].requestIdHeader = Some(ExistingRequestId)
  /\ req[1].vars["traceId"] = TraceT1
  /\ req[1].vars["requestId"] = ExistingRequestId
  /\ Arrived(2)
  /\ IsNullish(req[2].traceHeader) /\ IsNullish(req[2].requestIdHeader)
  /\ req[2].vars["traceId"] # req[2].vars["requestId"]

\* The headers that were parsed, each with what parseCloudTraceHeader gave.
Parsed == {[header |-> req[r].traceHeader, result |-> req[r].parsedTrace] : r \in {r2 \in Requests : Arrived(r2)}}

\* C19: for every header TRACE/SPAN or TRACE/SPAN;o=F with TRACE 32 hex
\* characters in any letter case, SPAN one or more decimal digits and F 0 or
\* 1, parseCloudTraceHeader returns traceId = TRACE in lower case, spanId =
\* SPAN as written whatever its length, traceSampled = (F = 1), and
\* traceSampled false when there is no ;o= segment.
C19_StrictParse ==
  \A c \in Parsed :
    ~IsNullish(c.header) =>
      \A g \in GrammarSplits(c.header[1]) :
        /\ ~IsNullish(c.result)
        /\ DOMAIN c.result[1] = {"traceId", "spanId", "traceSampled"}
        /\ IsLowerOf(c.result[1].traceId, g.T)
        /\ c.result[1].spanId = g.S
        /\ c.result[1].traceSampled = (g.F = <<";", "o", "=", "1">>)
        /\ g.F = <<>> => c.result[1].traceSampled = FALSE

\* A header with a mixed-case trace id, a 20-digit span and ;o=1 was parsed.
C19_Witness ==
  \E c \in Parsed :
    /\ c.header = Some(TraceMixed \o <<"/", "1", "8", "4", "4", "6", "7", "4", "4", "0", "7", "3", "7", "0", "9", "5", "5", "1", "6", "1", "5">> \o <<";", "o", "=", "1">>)
    /\ ~IsNullish(c.result)
    /\ Len(c.result[1].spanId) = 20
    /\ c.result[1].traceSampled

\* C20: for every input whose first 32 characters are hex characters but
\* which is not of the strict form, parseCloudTraceHeader returns traceId =
\* the first 32 characters in lower case, spanId "0" and traceSampled false,
\* whatever span or flag the rest holds.
C20_LenientParse ==
  \A c \in Parsed :
    (~IsNullish(c.header) /\ HasHexPrefix(c.header[1]) /\ ~MatchesGrammar(c.header[1])) =>
      /\ ~IsNullish(c.result)
      /\ DOMAIN c.result[1] = {"traceId", "spanId", "traceSampled"}
      /\ IsLowerOf(c.result[1].traceId, SubSeq(c.header[1], 1, 32))
      /\ c.result[1].spanId = <<"0">>
      /\ c.result[1].traceSampled = FALSE

\* An upper-case trace id followed by a numeric span and the flag ;o=2 was
\* parsed: the span and the flag are dropped.
C20_Witness ==
  \E c \in Parsed :
    /\ c.header = Some(TraceTU \o <<"/", "1", "2", "3", "4", "5", "6">> \o <<";", "o", "=", "2">>)
    /\ ~IsNullish(c.result)
    /\ c.result[1].spanId = <<"0">>

\* C21: parseCloudTraceHeader returns null exactly when the input is null,
\* undefined, empty or does not begin with 32 hex characters; it has no
\* other failure path: whatever the input, the request that carried it
\* reaches the handler with a trace context.
C21_NullExactlyWithoutHexPrefix ==
  \A r \in Requests :
    Arrived(r) =>
      /\ IsNullish(req[r].parsedTrace) <=>
           \/ IsNullish(req[r].traceHeader)
           \/ req[r].traceHeader[1] = <<>>
           \/ ~HasHexPrefix(req[r].traceHeader[1])
      /\ ReadsOf(r) # {}
      /\ \A rd \in ReadsOf(r) : ~IsNullish(rd.trace)

\* A header of 32 characters that are not all hex, followed by /1;o=1, was
\* parsed to null.
C21_Witness ==
  \E c \in Parsed :
    /\ c.header = Some(<<"n", "o", "t", "-", "h", "e", "x", "-", "c", "h", "a", "r", "s", "-", "h", "e", "r", "e", "-", "3", "2", "-", "c", "h", "a", "r", "a", "c", "t", "e", "r", "s">> \o <<"/", "1">> \o <<";", "o", "=", "1">>)
    /\ IsNullish(c.result)

\* What C22 reads from the configuration.
NodeEnvIs(e) == config.NODE_ENV = <<e>>
OnCloudRun ==
  \/ (config.K_SERVICE # <<>> /\ config.K_SERVICE[1] # <<>>)
  \/ (config.K_REVISION # <<>> /\ config.K_REVISION[1] # <<>>)
  \/ (config.K_CONFIGURATION # <<>> /\ config.K_CONFIGURATION[1] # <<>>)
ExplicitEnvironment ==
  IF config.options = <<>> THEN <<>> ELSE config.options[1].environment
UsesProduction == created[1].transport = <<"PinoTransport">>
UsesDevelopment == created[1].transport = <<"SimplePrettyTerminal">>

\* C22 as stated: createLogger uses the production transport when
\* NODE_ENV=production or when running on Cloud Run (K_SERVICE, K_REVISION or
\* K_CONFIGURATION set) and the development transport otherwise; an explicit
\* options.environment overrides the detection.
C22_ProductionOnCloudRun ==
  created # <<>> =>
    /\ UsesProduction \/ UsesDevelopment
    /\ IF ExplicitEnvironment # <<>>
       THEN UsesProduction <=> ExplicitEnvironment[1] = Production
       ELSE UsesProduction <=> (NodeEnvIs(Production) \/ OnCloudRun)

\* C22 amended: NODE_ENV, when set and not empty, decides alone (production
\* transport exactly for NODE_ENV=production); the Cloud Run variables are
\* consulted only when NODE_ENV is unset or empty; an explicit
\* options.environment overrides both.
C22_NodeEnvBeforeCloudRun ==
  created # <<>> =>
    /\ UsesProduction \/ UsesDevelopment
    /\ IF ExplicitEnvironment # <<>>
       THEN UsesProduction <=> ExplicitEnvironment[1] = Production
       ELSE IF config.NODE_ENV # <<>> /\ config.NODE_ENV[1] # <<>>
       THEN UsesProduction <=> NodeEnvIs(Production)
       ELSE UsesProduction <=> OnCloudRun

\* createLogger() was called without options on Cloud Run with
\* NODE_ENV=development.
C22_Witness ==
  /\ created # <<>>
  /\ config.options = <<>>
  /\ NodeEnvIs(Development)
  /\ config.K_SERVICE = <<MyService>>
  /\ UsesDevelopment

\* The handler's entry reads: the ones made when next() was invoked.
EntryReads(r) == {rd \in ReadsOf(r) : rd.k = 0}

\* C23: whatever the inbound headers (absent, malformed or valid), when the
\* next stage is invoked the identifiers are resolved, the logger carries
\* the fields made from them, the attributes and the X-Request-ID response
\* header are written and the store is bound; the next stage is invoked
\* once per request and never again.
C23_StepsInOrder ==
  /\ [](\A r \in Requests :
          Arrived(r) =>
            /\ ~IsNullish(req[r].atNext)
            /\ req[r].atNext[1].store = Some(NewStoreRef(r))
            /\ ~IsNullish(storeHeap[NewStoreRef(r)])
            /\ req[r].atNext[1].logger =
                 GcpFields(ExpectedProjectId, storeHeap[NewStoreRef(r)][1].trace)
            /\ {"requestId", "traceId"} \subseteq DOMAIN req[r].atNext[1].vars
            /\ req[r].atNext[1].vars["requestId"] = storeHeap[NewStoreRef(r)][1].trace.requestId
            /\ req[r].atNext[1].vars["traceId"] = storeHeap[NewStoreRef(r)][1].trace.traceId
            /\ req[r].atNext[1].resHeader = Some(storeHeap[NewStoreRef(r)][1].trace.requestId)
            /\ Cardinality(EntryReads(r)) = 1
            /\ \A rd \in EntryReads(r) :
                 rd.ref = Some(NewStoreRef(r)) /\ ~IsNullish(rd.trace) /\ ~IsNullish(rd.logger))
  /\ [][\A r \in Requests :
          /\ Arrived(r) => (Arrived(r)' /\ EntryReads(r)' = EntryReads(r) /\ req'[r].atNext = req[r].atNext)
          /\ ~Arrived(r) => (EntryReads(r) = {} /\ IsNullish(req[r].atNext))]_vars

\* A request with a malformed header and one with a valid header have both
\* reached their handler and been answered.
C23_Witness ==
  /\ req[1].traceHeader = Some(<<"i", "n", "v", "a", "l", "i", "d", "-", "h", "e", "a", "d", "e", "r">>)
  /\ req[2].traceHeader = Some(TraceT1 \o <<"/", "1">>)
  /\ req[1].phase = "done" /\ req[2].phase = "done"
  /\ Cardinality(EntryReads(1)) = 1 /\ Cardinality(EntryReads(2)) = 1
  /\ ~IsNullish(req[2].atNext)

\* C24: each request gets a RequestStore (with its TraceContext) of its own,
\* shared with no other request, and nothing modifies a store's trace or
\* logger once the store exists: not the middleware serving another request,
\* not runWithRequestContext, getRequestLogger or getTraceContext.  The only
\* thing the context store does is bind a store for a scope: outside every
\* scope it holds nothing.
C24_StoresNeverModified ==
  /\ [](/\ \A r, r2 \in Requests :
             (Arrived(r) /\ Arrived(r2) /\ r # r2) =>
               /\ req[r].store # req[r2].store
               /\ req[r].store # Some(InnerStoreRef(r2))
        /\ \A r \in Requests :
             Arrived(r) =>
               /\ storeHeap[req[r].store[1]] = Some([trace |-> req[r].trace[1], logger |-> req[r].logger[1]])
        /\ rootStore = Nullish)
  /\ [][\A s \in StoreRefs : ~IsNullish(storeHeap[s]) => storeHeap'[s] = storeHeap[s]]_vars

\* Two requests are in flight; the first has made a nested call with a store
\* of its own and the second has resumed after a timer and read its context.
C24_Witness ==
  /\ InFlight(1) /\ InFlight(2)
  /\ ~IsNullish(storeHeap[InnerStoreRef(1)])
  /\ \E rd \in ReadsOf(2) : rd.at = "seq" /\ rd.k = 1
  /\ storeHeap[NewStoreRef(1)] # storeHeap[InnerStoreRef(1)]

\* A read made by a timer callback scheduled inside the scope.
TimerRead(rd) ==
  \/ rd.at = "dangling"
  \/ (rd.at = "seq" /\ rd.k >= 1)
  \/ (rd.at = "fan" /\ rd.k \in 1..FanOut)

\* C25: a timer callback scheduled from inside the scoped function gets that
\* scope's store when it runs, also when the scoped function did not await
\* it and it runs after runWithRequestContext and the middleware have
\* finished.
C25_TimerCallbackKeepsStore ==
  /\ \A rd \in reads :
       TimerRead(rd) =>
         /\ rd.ref = req[rd.req].store
         /\ rd.trace = req[rd.req].trace
         /\ rd.logger = req[rd.req].logger
  /\ \A r \in Requests :
       ~IsNullish(req[r].late) =>
         /\ req[r].late[1].ref = Some(NewStoreRef(r))
         /\ req[r].late[1].trace = Some(storeHeap[NewStoreRef(r)][1].trace)
         /\ req[r].late[1].logger = Some(storeHeap[NewStoreRef(r)][1].logger)

\* A timer nobody awaited has fired after its request's middleware had
\* settled and after a later request had been taken up.
C25_Witness ==
  \E r, r2 \in Requests :
    /\ r2 > r
    /\ Arrived(r2)
    /\ ~IsNullish(req[r].late)
    /\ req[r].late[1].mwSettled
    /\ req[r].late[1].ref = req[r].store
    /\ \E rd \in ReadsOf(r) : rd.at = "dangling" /\ rd.k = 1 /\ rd.settled

\* C26: whatever X-Cloud-Trace-Context holds (nothing, a valid value in any
\* letter case, a partially valid or a malformed one), the traceId of the
\* store the middleware binds is 32 lower-case hex characters.
C26_BoundTraceIdIsLowerHex32 ==
  \A r \in Requests :
    Arrived(r) =>
      /\ ~IsNullish(storeHeap[NewStoreRef(r)])
      /\ IsLowerHex32(storeHeap[NewStoreRef(r)][1].trace.traceId)
      /\ \A rd \in ReadsOf(r) : ~IsNullish(rd.trace) /\ IsLowerHex32(rd.trace[1].traceId)

\* A mixed-case trace id followed by a span that is no number and a broken
\* option was bound in lower case.
C26_Witness ==
  /\ req[1].traceHeader = Some(TraceMixed \o <<"/", "1", "a">> \o <<";", "o", "=">>)
  /\ ~IsNullish(storeHeap[NewStoreRef(1)])
  /\ storeHeap[NewStoreRef(1)][1].trace.traceId = <<"a", "b", "c", "d", "e", "f", "0", "1", "2", "3", "4", "5", "6", "7", "8", "9", "a", "b", "c", "d", "e", "f", "0", "1", "2", "3", "4", "5", "6", "7", "8", "9">>

\* C27 as stated: the requestId of every trace context the middleware creates is a
\* non-empty string: an inbound X-Request-ID is taken verbatim only when it
\* is not empty, and otherwise a requestId is generated.
C27_RequestIdNonEmpty ==
  \A r \in Requests :
    Arrived(r) =>
      /\ req[r].trace[1].requestId # <<>>
      /\ IF ~IsNullish(req[r].requestIdHeader) /\ req[r].requestIdHeader[1] # <<>>
         THEN req[r].trace[1].requestId = req[r].requestIdHeader[1]
         ELSE req[r].trace[1].requestId \in GeneratedRequestIds

\* C27 amended: an inbound X-Request-ID is taken verbatim whenever the
\* header is present, the empty value included, and a requestId is generated
\* only when the header is absent; so the requestId is non-empty exactly
\* when the header is absent or not empty.
C27_RequestIdVerbatimWhenPresent ==
  \A r \in Requests :
    Arrived(r) =>
      /\ IF IsNullish(req[r].requestIdHeader)
         THEN /\ req[r].trace[1].requestId \in GeneratedRequestIds
              /\ IsUuidV4(req[r].trace[1].requestId)
         ELSE req[r].trace[1].requestId = req[r].requestIdHeader[1]
      /\ req[r].trace[1].requestId = <<>> <=> req[r].requestIdHeader = Some(<<>>)
      /\ storeHeap[NewStoreRef(r)][1].trace.requestId = req[r].trace[1].requestId

\* A request with an empty X-Request-ID was answered: its requestId and the
\* response header are empty; the next request had none and got a UUID.
C27_Witness ==
  /\ req[1].requestIdHeader = Some(<<>>)
  /\ req[1].phase = "done"
  /\ req[1].trace[1].requestId = <<>>
  /\ req[1].resHeader = Some(<<>>)
  /\ Arrived(2) /\ IsNullish(req[2].requestIdHeader)
  /\ Len(req[2].trace[1].requestId) = UuidLen

\* Number of hex characters h begins with.
LeadingHexRun(h) == Cardinality({n \in 1..Len(h) : \A i \in 1..n : h[i] \in HexChars})
\* The parsed headers that took the lenient path: present, not empty and
\* not of the strict form.
LenientCases == {c \in Parsed : c.header # <<>> /\ c.header[1] # <<>> /\ ~MatchesGrammar(c.header[1])}

\* C28 as stated: the lenient fallback of parseCloudTraceHeader yields a
\* result only for inputs that start with exactly 32 hex characters; an
\* input that begins with more than 32 hex characters gets no traceId made
\* of its first 32.
C28_LenientOnlyExactly32 ==
  \A c \in LenientCases :
    /\ c.result # <<>> => LeadingHexRun(c.header[1]) = 32
    /\ LeadingHexRun(c.header[1]) > 32 => c.result = <<>>

\* C28 amended: the lenient fallback yields a result exactly for the inputs
\* that start with at least 32 hex characters; an input that begins with
\* more than 32 (for example 33) gets its first 32 characters, in lower
\* case, as traceId, with spanId "0" and traceSampled false.
C28_LenientAtLeast32 ==
  \A c \in LenientCases :
    /\ c.result # <<>> <=> LeadingHexRun(c.header[1]) >= 32
    /\ LeadingHexRun(c.header[1]) > 32 =>
         /\ c.result # <<>>
         /\ IsLowerOf(c.result[1].traceId, SubSeq(c.header[1], 1, 32))
         /\ c.result[1].spanId = <<"0">>
         /\ c.result[1].traceSampled = FALSE

\* A header of 33 hex characters followed by /1;o=1 was parsed: the first 32
\* are its trace id.
C28_Witness ==
  \E c \in LenientCases :
    /\ c.header = Some(TraceT1 \o <<"f">> \o <<"/", "1">> \o <<";", "o", "=", "1">>)
    /\ LeadingHexRun(c.header[1]) = 33
    /\ c.result # <<>>
    /\ c.result[1].traceId = TraceT1

====
